---- MODULE Spec2Model ----
(***************************************************************************)
(* value-parser: the recursive-descent Parser of src/value-parser/src/     *)
(* lib.rs as a state machine.  A parser is its two fields (src, pos) and   *)
(* the stack of method invocations in progress; one step runs the method   *)
(* on top of the stack from where it stands to its next call, loop         *)
(* iteration, return or panic.                                             *)
(*                                                                         *)
(* src is a sequence of bytes.  An ASCII byte is written as the one-letter *)
(* string of its character; the two bytes of the UTF-8 encoding of U+00E9  *)
(* are written "xC3" and "xA9".                                            *)
(***************************************************************************)
EXTENDS Integers, Sequences, FiniteSets, TLC

VARIABLES src, pos, stack, ret, status, msg, case

vars == <<src, pos, stack, ret, status, msg, case>>

(***************************************************************************)
(* Bytes and character classes (u8 as char, the char::is_ascii tests).     *)
(***************************************************************************)
NUL == "NUL"

\* The continuation bytes of UTF-8 (10xxxxxx) among the bytes written.
ContBytes == {"xA9"}

is_ascii_digit(c) == c \in {"0", "1", "2", "3", "4", "5", "6", "7", "8", "9"}

is_ascii_alphabetic(c) ==
    c \in {"a", "b", "c", "d", "e", "f", "g", "h", "i", "j", "k", "l", "m",
           "n", "o", "p", "q", "r", "s", "t", "u", "v", "w", "x", "y", "z",
           "A", "B", "C", "D", "E", "F", "G", "H", "I", "J", "K", "L", "M",
           "N", "O", "P", "Q", "R", "S", "T", "U", "V", "W", "X", "Y", "Z"}

is_ascii_alphanumeric(c) == is_ascii_alphabetic(c) \/ is_ascii_digit(c)

is_ascii_whitespace(c) == c \in {" ", "\t", "\n", "\f", "\r"}

\* `byte as char`: a byte below 0x80 is its ASCII character, a byte from
\* 0x80 is the Latin-1 character of that code point, never the character
\* the byte was part of.
as_char(b) ==
    CASE b = "xC3" -> "U+00C3"
      [] b = "xA9" -> "U+00A9"
      [] OTHER -> b

\* str::is_char_boundary: byte offset i of s starts a character or ends s.
is_char_boundary(s, i) ==
    \/ i = 0
    \/ i = Len(s)
    \/ i < Len(s) /\ s[i + 1] \notin ContBytes

(***************************************************************************)
(* The Value tree.                                                         *)
(***************************************************************************)
Bool(b) == [tag |-> "Bool", v |-> b]
Number(n) == [tag |-> "Number", v |-> n]
String(s) == [tag |-> "String", v |-> s]
Map(m) == [tag |-> "Map", v |-> m]
List(l) == [tag |-> "List", v |-> l]

\* What a method returns that is not a Value: nothing, a float, a string.
Unit == [tag |-> "Unit", v |-> <<>>]
F64(x) == [tag |-> "f64", v |-> x]
Str(s) == [tag |-> "str", v |-> s]

(***************************************************************************)
(* str::parse::<f64> on the text parse_number scans, which holds digits    *)
(* and '.' only: it is a float iff it has at most one '.' and at least one *)
(* digit.  The value is kept as <<m, e>>, meaning m / 10^e, with no        *)
(* trailing zero in the fraction, so that equal floats are equal pairs     *)
(* (exact for the short literals of the model).                            *)
(***************************************************************************)
DigitValue(c) ==
    CASE c = "0" -> 0 [] c = "1" -> 1 [] c = "2" -> 2 [] c = "3" -> 3
      [] c = "4" -> 4 [] c = "5" -> 5 [] c = "6" -> 6 [] c = "7" -> 7
      [] c = "8" -> 8 [] c = "9" -> 9

Dots(t) == Cardinality({i \in 1..Len(t) : t[i] = "."})

RECURSIVE Decimal(_, _, _)
\* The digits of t from index i on, read after the integer acc.
Decimal(t, i, acc) ==
    IF i > Len(t) THEN acc
    ELSE IF t[i] = "." THEN Decimal(t, i + 1, acc)
    ELSE Decimal(t, i + 1, 10 * acc + DigitValue(t[i]))

RECURSIVE Normal(_, _)
Normal(m, e) ==
    IF e > 0 /\ m % 10 = 0 THEN Normal(m \div 10, e - 1) ELSE <<m, e>>

FractionLen(t) ==
    IF Dots(t) = 0 THEN 0
    ELSE Len(t) - (CHOOSE i \in 1..Len(t) : t[i] = ".")

\* A conversion that reads on past a second '.'.
f64_from_str_any_dots(t) == Len(t) - Dots(t) >= 1

f64_from_str_ok(t) == Dots(t) <= 1 /\ Len(t) - Dots(t) >= 1

f64_from_str(t) == Normal(Decimal(t, 1, 0), FractionLen(t))

(***************************************************************************)
(* The parser as a record, and its primitive operations.                   *)
(***************************************************************************)
Self ==
    [src |-> src, pos |-> pos, stack |-> stack, ret |-> ret,
     status |-> status, msg |-> msg]

new(text) ==
    [src |-> text, pos |-> 0, stack |-> <<>>, ret |-> Unit,
     status |-> "idle", msg |-> ""]

at_eof(q) == q.pos >= Len(q.src)

\* The slice &src[pos..pos + tok.len()] of `at` panics when an end of it is
\* inside a character; `at` takes it only when it is within src.
at_panics(q, tok) ==
    /\ q.pos + Len(tok) <= Len(q.src)
    /\ ~(is_char_boundary(q.src, q.pos)
         /\ is_char_boundary(q.src, q.pos + Len(tok)))

at(q, tok) ==
    /\ q.pos + Len(tok) <= Len(q.src)
    /\ SubSeq(q.src, q.pos + 1, q.pos + Len(tok)) = tok

goto(q, p) == [q EXCEPT !.pos = p]

\* eat without its result: the parser after eat(tok).
eat(q, tok) == IF at(q, tok) THEN goto(q, q.pos + Len(tok)) ELSE q

current(q) == IF q.pos < Len(q.src) THEN as_char(q.src[q.pos + 1]) ELSE NUL

advance(q) == goto(q, q.pos + 1)

(***************************************************************************)
(* The stack of invocations.                                               *)
(***************************************************************************)
Top(q) == q.stack[Len(q.stack)]

Pop(s) == SubSeq(s, 1, Len(s) - 1)

\* The running method moves to frame f.
Goto(q, f) == [q EXCEPT !.stack = Append(Pop(q.stack), f)]

\* The running method, left at frame f, calls the method of frame g.
Call(q, f, g) == [q EXCEPT !.stack = Append(Append(Pop(q.stack), f), g)]

\* The running method returns v to its caller.
Return(q, v) ==
    [q EXCEPT !.stack = Pop(q.stack), !.ret = v,
              !.status = IF Len(q.stack) = 1 THEN "returned" ELSE "running"]

\* A panic unwinds every invocation: no partial Value is kept.
Panic(q, m) ==
    [q EXCEPT !.stack = <<>>, !.ret = Unit, !.status = "panicked", !.msg = m]

BoundaryPanic == "byte index is not a char boundary"
UnwrapPanic == "called Result::unwrap() on an Err value"

\* The invocations: the method, where it stands (at) and its locals.  Two
\* fields are kept for the record only and steer nothing: entry, the cursor
\* when parse_value was called, and top, the cursor at the top of the
\* current iteration of the loop of parse_list_or_map.
eat_ws_frame == [fn |-> "eat_ws"]
parse_ident_frame(q) == [fn |-> "parse_ident", start |-> q.pos]
parse_string_frame == [fn |-> "parse_string", s |-> <<>>]
parse_number_frame(q) == [fn |-> "parse_number", start |-> q.pos]
remove_reference_frame == [fn |-> "remove_reference"]
parse_value_frame(q) == [fn |-> "parse_value", at |-> "start", entry |-> q.pos]
parse_list_or_map_frame(q) ==
    [fn |-> "parse_list_or_map", at |-> "loop", first |-> TRUE,
     list |-> <<>>, map |-> <<>>, is_map |-> FALSE, has_comma |-> FALSE,
     k |-> Unit, top |-> q.pos]

(***************************************************************************)
(* eat_ws: one test of the loop condition, and the iteration if it holds.  *)
(***************************************************************************)
\* The loop without its `pos += 1`.
eat_ws_stuck(q) ==
    IF ~at_eof(q) /\ is_ascii_whitespace(current(q))
    THEN q
    ELSE Return(q, Unit)

eat_ws(q) ==
    IF ~at_eof(q) /\ is_ascii_whitespace(current(q))
    THEN goto(q, q.pos + 1)
    ELSE Return(q, Unit)

(***************************************************************************)
(* parse_ident.                                                            *)
(***************************************************************************)
parse_ident(q) ==
    IF is_ascii_alphanumeric(current(q))
    THEN advance(q)
    ELSE Return(q, Str(SubSeq(q.src, Top(q).start + 1, q.pos)))

(***************************************************************************)
(* parse_string: the character an escape stands for; "" when the escape is *)
(* unknown.                                                                *)
(***************************************************************************)
\* The table with the 'r' row a copy of the 'n' row.
escape_cr_as_lf(c) ==
    CASE c = "\\" -> "\\"
      [] c = "n" -> "\n"
      [] c = "r" -> "\n"
      [] c = "t" -> "\t"
      [] OTHER -> ""

escape(c) ==
    CASE c = "\\" -> "\\"
      [] c = "n" -> "\n"
      [] c = "r" -> "\r"
      [] c = "t" -> "\t"
      [] OTHER -> ""

parse_string(q) ==
    LET f == Top(q) IN
    IF at_eof(q) THEN Panic(q, "missing closing \"")
    ELSE IF at_panics(q, <<"\"">>) THEN Panic(q, BoundaryPanic)
    ELSE IF at(q, <<"\"">>) THEN Return(eat(q, <<"\"">>), Str(f.s))
    ELSE IF at(q, <<"\\">>)
         THEN LET q1 == eat(q, <<"\\">>)
                  c == current(q1)
                  q2 == advance(q1)
              IN IF escape(c) = "" THEN Panic(q2, "unknown escape")
                 ELSE Goto(q2, [f EXCEPT !.s = Append(f.s, escape(c))])
         ELSE Goto(advance(q), [f EXCEPT !.s = Append(f.s, current(q))])

(***************************************************************************)
(* parse_number.                                                           *)
(***************************************************************************)
is_number_char(c) == is_ascii_digit(c) \/ c = "."

parse_number(q) ==
    IF ~at_eof(q) /\ is_number_char(current(q))
    THEN goto(q, q.pos + 1)
    ELSE LET t == SubSeq(q.src, Top(q).start + 1, q.pos) IN
         IF f64_from_str_ok(t) THEN Return(q, F64(f64_from_str(t)))
         ELSE Panic(q, UnwrapPanic)

(***************************************************************************)
(* remove_reference.                                                       *)
(***************************************************************************)
\* The loop stopping at the ':' without consuming it.
remove_reference_keeps_colon(q) ==
    IF at_eof(q) THEN Return(q, Unit)
    ELSE IF at_panics(q, <<":">>) THEN Panic(q, BoundaryPanic)
    ELSE IF at(q, <<":">>) THEN Return(q, Unit)
    ELSE advance(q)

remove_reference(q) ==
    IF at_eof(q) THEN Return(q, Unit)
    ELSE IF at_panics(q, <<":">>) THEN Panic(q, BoundaryPanic)
    ELSE IF at(q, <<":">>) THEN Return(eat(q, <<":">>), Unit)
    ELSE advance(q)

(***************************************************************************)
(* parse_value.                                                            *)
(***************************************************************************)
TRUE_TOK == <<"t", "r", "u", "e">>
FALSE_TOK == <<"f", "a", "l", "s", "e">>
REF_TOK == <<"@", "0", "x">>

parse_value(q) ==
    LET f == Top(q) IN
    CASE f.at = "start" ->
           Call(q, [f EXCEPT !.at = "dispatch"], eat_ws_frame)
      [] f.at = "dispatch" ->
           IF at_panics(q, <<"{">>) THEN Panic(q, BoundaryPanic)
           ELSE IF at(q, <<"{">>)
                THEN LET q1 == eat(q, <<"{">>) IN
                     Call(q1, [f EXCEPT !.at = "container"],
                          parse_list_or_map_frame(q1))
           ELSE IF at(q, <<"\"">>)
                THEN Call(eat(q, <<"\"">>), [f EXCEPT !.at = "string"],
                          parse_string_frame)
           ELSE IF is_ascii_digit(current(q))
                THEN Call(q, [f EXCEPT !.at = "number"], parse_number_frame(q))
           ELSE IF at_panics(q, TRUE_TOK) THEN Panic(q, BoundaryPanic)
           ELSE IF at(q, TRUE_TOK) THEN Return(eat(q, TRUE_TOK), Bool(TRUE))
           ELSE IF at_panics(q, FALSE_TOK) THEN Panic(q, BoundaryPanic)
           ELSE IF at(q, FALSE_TOK) THEN Return(eat(q, FALSE_TOK), Bool(FALSE))
           ELSE IF at_panics(q, REF_TOK) THEN Panic(q, BoundaryPanic)
           ELSE IF at(q, REF_TOK)
                THEN Call(eat(q, REF_TOK), [f EXCEPT !.at = "reference"],
                          remove_reference_frame)
           ELSE Panic(q, "expected a value")
      [] f.at = "container" -> Return(q, q.ret)
      [] f.at = "string" -> Return(q, String(q.ret.v))
      [] f.at = "number" -> Return(q, Number(q.ret.v))
      [] f.at = "reference" ->
           Call(q, [f EXCEPT !.at = "referent"], parse_value_frame(q))
      [] f.at = "referent" -> Return(q, q.ret)

(***************************************************************************)
(* parse_list_or_map.                                                      *)
(***************************************************************************)
MixPanic == "can't mix list and map"

\* Lines 88-96: the shape check of an entry; "" when it passes.
shape_check(first, is_map, bracket) ==
    IF bracket
    THEN IF first \/ is_map THEN "" ELSE MixPanic
    ELSE IF ~is_map THEN "" ELSE MixPanic

\* The separator check without the assertion of line 84.
separator_check_no_missing(first, has_comma, closing) ==
    IF first /\ has_comma THEN ", not allowed before first item" ELSE ""

\* Lines 77-85 around eat("}"): the separator check; "" when it passes.
separator_check(first, has_comma, closing) ==
    IF first /\ has_comma THEN ", not allowed before first item"
    ELSE IF closing THEN ""
    ELSE IF ~first /\ ~has_comma THEN "expected , after list item"
    ELSE ""

parse_list_or_map(q) ==
    LET f == Top(q) IN
    CASE f.at = "loop" ->
           Call(q, [f EXCEPT !.at = "comma", !.top = q.pos], eat_ws_frame)
      [] f.at = "comma" ->
           IF at_panics(q, <<",">>) THEN Panic(q, BoundaryPanic)
           ELSE Call(eat(q, <<",">>),
                     [f EXCEPT !.at = "check", !.has_comma = at(q, <<",">>)],
                     eat_ws_frame)
      [] f.at = "check" ->
           IF f.first /\ f.has_comma
           THEN Panic(q, separator_check(f.first, f.has_comma, FALSE))
           ELSE IF at_panics(q, <<"}">>) THEN Panic(q, BoundaryPanic)
           ELSE IF separator_check(f.first, f.has_comma, at(q, <<"}">>)) # ""
                THEN Panic(q, separator_check(f.first, f.has_comma,
                                              at(q, <<"}">>)))
           ELSE IF at(q, <<"}">>)
                THEN Return(eat(q, <<"}">>),
                            IF f.is_map THEN Map(f.map) ELSE List(f.list))
           ELSE Call(q, [f EXCEPT !.at = "classify"], eat_ws_frame)
      [] f.at = "classify" ->
           IF at_panics(q, <<"[">>) THEN Panic(q, BoundaryPanic)
           ELSE LET bracket == at(q, <<"[">>)
                    q1 == eat(q, <<"[">>)
                    is_map1 == f.is_map \/ (bracket /\ f.first)
                IN
                IF shape_check(f.first, f.is_map, bracket) # ""
                THEN Panic(q1, shape_check(f.first, f.is_map, bracket))
                ELSE IF is_ascii_alphabetic(current(q1))
                     THEN Call(q1, [f EXCEPT !.at = "field", !.is_map = TRUE],
                               parse_ident_frame(q1))
                ELSE IF is_map1
                     THEN Call(q1, [f EXCEPT !.at = "key", !.is_map = is_map1],
                               parse_value_frame(q1))
                ELSE Call(q1, [f EXCEPT !.at = "item"], parse_value_frame(q1))
      [] f.at = "field" ->
           Call(q, [f EXCEPT !.at = "field_eq", !.k = String(q.ret.v)],
                eat_ws_frame)
      [] f.at = "field_eq" ->
           IF at_panics(q, <<"=">>) THEN Panic(q, BoundaryPanic)
           ELSE IF ~at(q, <<"=">>) THEN Panic(q, "expected a = after field")
           ELSE LET q1 == eat(q, <<"=">>) IN
                Call(q1, [f EXCEPT !.at = "value"], parse_value_frame(q1))
      [] f.at = "key" ->
           Call(q, [f EXCEPT !.at = "key_close", !.k = q.ret], eat_ws_frame)
      [] f.at = "key_close" ->
           IF at_panics(q, <<"]">>) THEN Panic(q, BoundaryPanic)
           ELSE IF ~at(q, <<"]">>) THEN Panic(q, "expected a ]")
           ELSE Call(eat(q, <<"]">>), [f EXCEPT !.at = "key_eq"], eat_ws_frame)
      [] f.at = "key_eq" ->
           IF at_panics(q, <<"=">>) THEN Panic(q, BoundaryPanic)
           ELSE IF ~at(q, <<"=">>) THEN Panic(q, "expected a = after list key")
           ELSE LET q1 == eat(q, <<"=">>) IN
                Call(q1, [f EXCEPT !.at = "value"], parse_value_frame(q1))
      [] f.at = "value" ->
           Goto(q, [f EXCEPT !.at = "loop", !.first = FALSE,
                             !.map = Append(f.map, <<f.k, q.ret>>)])
      [] f.at = "item" ->
           Goto(q, [f EXCEPT !.at = "loop", !.first = FALSE,
                             !.list = Append(f.list, q.ret)])

(***************************************************************************)
(* One step of the parser, and the parser run to its end.                  *)
(***************************************************************************)
Step(q) ==
    LET fn == Top(q).fn IN
    CASE fn = "eat_ws" -> eat_ws(q)
      [] fn = "parse_ident" -> parse_ident(q)
      [] fn = "parse_string" -> parse_string(q)
      [] fn = "parse_number" -> parse_number(q)
      [] fn = "remove_reference" -> remove_reference(q)
      [] fn = "parse_value" -> parse_value(q)
      [] fn = "parse_list_or_map" -> parse_list_or_map(q)

RECURSIVE Run(_)
Run(q) == IF q.status = "running" THEN Run(Step(q)) ELSE q

\* parse_value called on a fresh Parser::new(text).
Begin(q) ==
    [q EXCEPT !.stack = <<parse_value_frame(q)>>, !.status = "running"]

Parse(text) == Run(Begin(new(text)))

(***************************************************************************)
(* The texts parsed.  case records how the text was written, as the tests  *)
(* of the crate record the text beside the value they expect.              *)
(***************************************************************************)
MaxEntries == 2
MaxItems == 2
MaxRun == 4
MaxAddr == 2
MaxRaw == 3

RECURSIVE Flat(_)
\* The concatenation of a sequence of texts.
Flat(ts) == IF ts = <<>> THEN <<>> ELSE Head(ts) \o Flat(Tail(ts))

SeqsUpTo(S, n) == UNION {[1..k -> S] : k \in 0..n}

\* A container: entries written one after the other in a style of
\* separators, alone or as the one item of an outer list.
Entries == {"L1", "LT", "LC", "SX", "M1"}

EntryText(e) ==
    CASE e = "L1" -> <<"1">>
      [] e = "LT" -> <<"t", "r", "u", "e">>
      [] e = "LC" -> <<"{", "}">>
      [] e = "SX" -> <<"x", " ", "=", " ", "1">>
      [] e = "M1" -> <<"[", "1", "]", " ", "=", " ", "2">>

Styles ==
    {"tight", "spaced", "trailing", "trailing_spaced", "leading",
     "leading_spaced", "missing", "double", "double_spaced",
     "double_trailing"}

Lead(style) ==
    CASE style = "spaced" -> <<" ">>
      [] style = "leading" -> <<",">>
      [] style = "leading_spaced" -> <<" ", ",", " ">>
      [] OTHER -> <<>>

Sep(style) ==
    CASE style = "spaced" -> <<" ", ",", "\n">>
      [] style = "trailing_spaced" -> <<",", " ">>
      [] style = "missing" -> <<" ">>
      [] style = "double" -> <<",", ",">>
      [] style = "double_spaced" -> <<",", " ", ",">>
      [] OTHER -> <<",">>

Trail(style) ==
    CASE style = "spaced" -> <<"\t">>
      [] style = "trailing" -> <<",">>
      [] style = "trailing_spaced" -> <<" ", ",", " ">>
      [] style = "double_trailing" -> <<",", ",">>
      [] OTHER -> <<>>

RECURSIVE Join(_, _)
Join(ts, sep) ==
    IF ts = <<>> THEN <<>>
    ELSE IF Len(ts) = 1 THEN Head(ts)
    ELSE Head(ts) \o sep \o Join(Tail(ts), sep)

ContainerText(es, style) ==
    <<"{">> \o Lead(style)
            \o Join([i \in 1..Len(es) |-> EntryText(es[i])], Sep(style))
            \o Trail(style) \o <<"}">>

InitContainer ==
    \E es \in SeqsUpTo(Entries, MaxEntries), style \in Styles,
       nested \in BOOLEAN :
        /\ case = [family |-> "container", entries |-> es, style |-> style,
                   nested |-> nested]
        /\ src = IF nested THEN <<"{">> \o ContainerText(es, style) \o <<"}">>
                 ELSE ContainerText(es, style)

\* A container of one entry that opens with '[': its key, with or without
\* a space before it, the ']' and the '=' each written or left out.
Keys == {"K1", "KS", "KT", "KF", "KC", "KR", "KX"}

KeyText(k) ==
    CASE k = "K1" -> <<"1">>
      [] k = "KS" -> <<"\"", "a", "\"">>
      [] k = "KT" -> <<"t", "r", "u", "e">>
      [] k = "KF" -> <<"f", "a", "l", "s", "e">>
      [] k = "KC" -> <<"{", "1", ",", " ", "2", "}">>
      [] k = "KR" -> <<"@", "0", "x", "7", "f", ":", " ", "1">>
      [] k = "KX" -> <<"x">>

Vals == {"V2", "VT"}

ValText(v) ==
    CASE v = "V2" -> <<"2">>
      [] v = "VT" -> <<"t", "r", "u", "e">>

BracketText(k, ws, close, eq, v) ==
    <<"{", "[">> \o (IF ws THEN <<" ">> ELSE <<>>) \o KeyText(k)
                 \o (IF close THEN <<"]">> ELSE <<>>) \o <<" ">>
                 \o (IF eq THEN <<"=", " ">> ELSE <<>>) \o ValText(v)
                 \o <<"}">>

InitBracket ==
    \E k \in Keys, v \in Vals, ws \in BOOLEAN, close \in BOOLEAN,
       eq \in BOOLEAN :
        /\ case = [family |-> "bracket", key |-> k, val |-> v, ws |-> ws,
                   close |-> close, eq |-> eq]
        /\ src = BracketText(k, ws, close, eq, v)

\* A string literal: an opening quote, items (a character or an escape),
\* and an end: the closing quote, the end of input, or a backslash and the
\* end of input.
Items == {"a", "bs", "nl", "cr", "tab", "quote", "q", "bs_eacute", "eacute"}

ItemText(i) ==
    CASE i = "a" -> <<"a">>
      [] i = "bs" -> <<"\\", "\\">>
      [] i = "nl" -> <<"\\", "n">>
      [] i = "cr" -> <<"\\", "r">>
      [] i = "tab" -> <<"\\", "t">>
      [] i = "quote" -> <<"\\", "\"">>
      [] i = "q" -> <<"\\", "q">>
      [] i = "bs_eacute" -> <<"\\", "xC3", "xA9">>
      [] i = "eacute" -> <<"xC3", "xA9">>

Ends == {"closed", "eof", "backslash"}

EndText(e) ==
    CASE e = "closed" -> <<"\"">>
      [] e = "eof" -> <<>>
      [] e = "backslash" -> <<"\\">>

StringText(is, e) ==
    <<"\"">> \o Flat([i \in 1..Len(is) |-> ItemText(is[i])]) \o EndText(e)

InitString ==
    \E is \in SeqsUpTo(Items, MaxItems), e \in Ends :
        /\ case = [family |-> "string", items |-> is, end |-> e]
        /\ src = StringText(is, e)

\* A numeric literal: a digit, then digits and '.', then what follows the
\* run; alone or as the one item of a list.
RunChars == {"0", "5", "."}

Runs ==
    {<<d>> \o t : d \in {"1", "5"}, t \in SeqsUpTo(RunChars, MaxRun - 1)}

Afters == {<<>>, <<" ">>, <<"x">>}

InitNumber ==
    \E run \in Runs, after \in Afters, nested \in BOOLEAN :
        /\ case = [family |-> "number", run |-> run, after |-> after,
                   nested |-> nested]
        /\ src = IF nested THEN <<"{">> \o run \o after \o <<"}">>
                 ELSE run \o after

\* A reference: "@0x", an address, ':' and the text of a value.
AddrPieces == {<<"7">>, <<"f">>, <<" ">>, <<"}">>, <<"xC3", "xA9">>}

Referents == {"R1", "RT", "RS", "RL", "RM", "RQ", "RE", "RD", "RR", "RU", "RN"}

ReferentText(r) ==
    CASE r = "R1" -> <<"1">>
      [] r = "RT" -> <<" ", "t", "r", "u", "e">>
      [] r = "RS" -> <<"\"", "a", "\"">>
      [] r = "RL" -> <<"{", "1", ",", " ", "2", "}">>
      [] r = "RM" -> <<"{", "x", " ", "=", " ", "1", "}">>
      [] r = "RQ" -> <<"?">>
      [] r = "RE" -> <<>>
      [] r = "RD" -> <<"1", ".", ".", "5">>
      [] r = "RR" -> <<"@", "0", "x", "8", ":", "5">>
      [] r = "RU" -> <<"@", "0", "x", "8">>
      [] r = "RN" -> <<"xC3", "xA9">>

ReferenceText(a, r) ==
    <<"@", "0", "x">> \o Flat(a) \o <<":">> \o ReferentText(r)

InitReference ==
    \E a \in SeqsUpTo(AddrPieces, MaxAddr), r \in Referents :
        /\ case = [family |-> "reference", addr |-> a, referent |-> r]
        /\ src = ReferenceText(a, r)

\* Any short text over a few characters of the grammar.
RawChars == {"{", "}", ",", "[", "1", " "}

InitRaw ==
    \E t \in SeqsUpTo(RawChars, MaxRaw) :
        /\ case = [family |-> "raw"]
        /\ src = t

Init ==
    /\ pos = 0
    /\ stack = <<>>
    /\ ret = Unit
    /\ status = "idle"
    /\ msg = ""
    /\ \/ InitContainer
       \/ InitBracket
       \/ InitString
       \/ InitNumber
       \/ InitReference
       \/ InitRaw

Becomes(q) ==
    /\ src' = q.src
    /\ pos' = q.pos
    /\ stack' = q.stack
    /\ ret' = q.ret
    /\ status' = q.status
    /\ msg' = q.msg
    /\ UNCHANGED case

Running(fn) == status = "running" /\ Top(Self).fn = fn

\* parse_value is called on the new parser.
Start == status = "idle" /\ Becomes(Begin(Self))

EatWs == Running("eat_ws") /\ Becomes(eat_ws(Self))
ParseIdent == Running("parse_ident") /\ Becomes(parse_ident(Self))
ParseString == Running("parse_string") /\ Becomes(parse_string(Self))
ParseNumber == Running("parse_number") /\ Becomes(parse_number(Self))
RemoveReference == Running("remove_reference") /\ Becomes(remove_reference(Self))
ParseValue == Running("parse_value") /\ Becomes(parse_value(Self))
ParseListOrMap == Running("parse_list_or_map") /\ Becomes(parse_list_or_map(Self))

Next ==
    \/ Start
    \/ EatWs
    \/ ParseIdent
    \/ ParseString
    \/ ParseNumber
    \/ RemoveReference
    \/ ParseValue
    \/ ParseListOrMap

Spec == Init /\ [][Next]_vars

FairSpec == Spec /\ WF_vars(Next)

(***************************************************************************)
(* What the texts are meant to parse to.                                   *)
(***************************************************************************)
Done == status \in {"returned", "panicked"}

One == <<1, 0>>
Two == <<2, 0>>

EntryShape(e) == IF e \in {"SX", "M1"} THEN "map" ELSE "list"

ItemValue(e) ==
    CASE e = "L1" -> Number(One)
      [] e = "LT" -> Bool(TRUE)
      [] e = "LC" -> List(<<>>)

PairValue(e) ==
    CASE e = "SX" -> <<String(<<"x">>), Number(One)>>
      [] e = "M1" -> <<Number(One), Number(Two)>>

KeyValue(k) ==
    CASE k = "K1" -> Number(One)
      [] k = "KS" -> String(<<"a">>)
      [] k = "KT" -> Bool(TRUE)
      [] k = "KF" -> Bool(FALSE)
      [] k = "KC" -> List(<<Number(One), Number(Two)>>)
      [] k = "KR" -> Number(One)

ValValue(v) ==
    CASE v = "V2" -> Number(Two)
      [] v = "VT" -> Bool(TRUE)

\* The styles that put exactly one comma between entries; a trailing comma
\* needs an entry before it.
WellSeparated(es, style) ==
    \/ style \in {"tight", "spaced"}
    \/ style \in {"trailing", "trailing_spaced"} /\ Len(es) >= 1

OneShape(es) == \A i, j \in 1..Len(es) : EntryShape(es[i]) = EntryShape(es[j])

ContainerValue(es) ==
    IF es # <<>> /\ EntryShape(es[1]) = "map"
    THEN Map([i \in 1..Len(es) |-> PairValue(es[i])])
    ELSE List([i \in 1..Len(es) |-> ItemValue(es[i])])

\* The value of the whole text when the container written is worth v.
Outer(v) == IF case.nested THEN List(<<v>>) ELSE v

(***************************************************************************)
(* C1: in a container whose entries (numbers, nested lists, struct entries *)
(* and bracketed entries, one comma between them) are of both shapes, the  *)
(* parse fails with "can't mix list and map" and returns no Value.         *)
(***************************************************************************)
C1_Entries == {"L1", "LC", "SX", "M1"}

C1_ShapeLockIn ==
    (/\ case.family = "container"
     /\ WellSeparated(case.entries, case.style)
     /\ \A i \in 1..Len(case.entries) : case.entries[i] \in C1_Entries
     /\ ~OneShape(case.entries)
     /\ Done)
    => status = "panicked" /\ msg = MixPanic

(***************************************************************************)
(* C2: a container whose entries are struct entries and bracketed entries  *)
(* in any order parses to the Map of its pairs in source order, equal keys *)
(* kept, the identifier of a struct entry a String key.                    *)
(***************************************************************************)
C2_MapOfBothForms ==
    (/\ case.family = "container"
     /\ WellSeparated(case.entries, case.style)
     /\ case.entries # <<>>
     /\ \A i \in 1..Len(case.entries) : case.entries[i] \in {"SX", "M1"}
     /\ Done)
    => status = "returned" /\ ret = Outer(ContainerValue(case.entries))

(***************************************************************************)
(* C3: {[k] = v}, k the text of a value, parses to the Map of the one pair *)
(* (value of k, value of v), with or without a space after '[', whether or *)
(* not k starts with a letter.                                             *)
(***************************************************************************)
C3_KeyIsAValue ==
    (/\ case.family = "bracket"
     /\ case.key # "KX"
     /\ case.close
     /\ case.eq
     /\ Done)
    => /\ status = "returned"
       /\ ret = Map(<<<<KeyValue(case.key), ValValue(case.val)>>>>)

(***************************************************************************)
(* C4: a container whose entry opens with '[' and lacks the ']' or the '=' *)
(* after its key fails and returns no Value; when the key is the text of a *)
(* value, it fails with "expected a ]" or "expected a =".                  *)
(***************************************************************************)
C4_BracketMustClose ==
    (/\ case.family = "bracket"
     /\ ~(case.close /\ case.eq)
     /\ Done)
    => /\ status = "panicked"
       /\ case.key # "KX" =>
              msg \in {"expected a ]", "expected a = after list key",
                       "expected a = after field"}

(***************************************************************************)
(* C5: a container of n >= 0 entries of one shape, one comma between them, *)
(* with or without a trailing comma (n >= 1) and whitespace, parses to a   *)
(* container of exactly these n entries in source order; for n = 0 to the  *)
(* empty List.                                                             *)
(***************************************************************************)
C5_EntryCountAndOrder ==
    (/\ case.family = "container"
     /\ WellSeparated(case.entries, case.style)
     /\ OneShape(case.entries)
     /\ Done)
    => /\ status = "returned"
       /\ ret = Outer(ContainerValue(case.entries))
       /\ case.entries = <<>> => ret = Outer(List(<<>>))

(***************************************************************************)
(* C6: "@0x" a ":" v parses as v alone does.                               *)
(***************************************************************************)
EAcute == <<"xC3", "xA9">>

AsciiAddr(a) == \A i \in 1..Len(a) : a[i] # EAcute

\* The outcome of this parse is the outcome of parsing the referent alone.
AsReferentAlone ==
    LET alone == Parse(ReferentText(case.referent)) IN
    /\ status = alone.status
    /\ status = "returned" => ret = alone.ret

\* C6 as claimed: for every address text a without ':' (any characters)
\* and every text v, parsing "@0x" a ":" v returns the Value that parsing v
\* alone returns, and fails when v alone fails.
C6_ReferenceTransparency ==
    (case.family = "reference" /\ Done) => AsReferentAlone

\* C6 as amended: the same for every ASCII address text a without ':'; an
\* address that holds a non-ASCII character makes the parse panic on a
\* slice that ends inside the character, whatever v is.
C6_ReferenceTransparencyAscii ==
    (case.family = "reference" /\ Done)
    => IF AsciiAddr(case.addr) THEN AsReferentAlone
       ELSE status = "panicked" /\ msg = BoundaryPanic

C6_Witness ==
    /\ case.family = "reference"
    /\ Len(case.addr) = 2
    /\ AsciiAddr(case.addr)
    /\ case.referent = "RR"
    /\ status = "returned"
    /\ ret = Number(<<5, 0>>)

(***************************************************************************)
(* C7: what parse_string decodes.                                          *)
(***************************************************************************)
ItemChar(i) ==
    CASE i = "a" -> "a"
      [] i = "bs" -> "\\"
      [] i = "nl" -> "\n"
      [] i = "cr" -> "\r"
      [] i = "tab" -> "\t"
      [] i = "eacute" -> "U+00E9"

UnknownEscapes == {"quote", "q", "bs_eacute"}

\* The items before the first one of the set S (all of them if none is).
Before(is, S) ==
    IF \E j \in 1..Len(is) : is[j] \in S
    THEN SubSeq(is, 1, (CHOOSE j \in 1..Len(is) :
                          /\ is[j] \in S
                          /\ \A k \in 1..(j - 1) : is[k] \notin S) - 1)
    ELSE is

Chars(is) == [j \in 1..Len(is) |-> ItemChar(is[j])]

\* C7 as claimed: between the quotes each of the four escapes decodes to
\* its character and every other character is copied unchanged, in source
\* order; a backslash before any other character, '"' and the end of input
\* included, fails with "unknown escape"; the closing quote is consumed and
\* is not part of the decoded text.
C7_EscapeFidelity ==
    (case.family = "string" /\ Done)
    => LET ok == Before(case.items, UnknownEscapes) IN
       IF ok # case.items \/ case.end = "backslash"
       THEN status = "panicked" /\ msg = "unknown escape"
       ELSE IF case.end = "eof" THEN status = "panicked"
       ELSE /\ status = "returned"
            /\ ret = String(Chars(case.items))
            /\ pos = Len(src)

\* C7 as amended: the same for ASCII characters; a non-ASCII character
\* between the quotes is not copied: the parse panics on it, on a slice
\* that ends inside the character.
C7_EscapeFidelityAscii ==
    (case.family = "string" /\ Done)
    => LET ok == Before(case.items, UnknownEscapes \cup {"eacute"}) IN
       IF ok # case.items
       THEN /\ status = "panicked"
            /\ msg = IF case.items[Len(ok) + 1] = "eacute"
                     THEN BoundaryPanic ELSE "unknown escape"
       ELSE IF case.end = "backslash"
            THEN status = "panicked" /\ msg = "unknown escape"
       ELSE IF case.end = "eof" THEN status = "panicked"
       ELSE /\ status = "returned"
            /\ ret = String(Chars(case.items))
            /\ pos = Len(src)

C7_Witness ==
    /\ case.family = "string"
    /\ case.items = <<"nl", "bs">>
    /\ case.end = "closed"
    /\ status = "returned"
    /\ ret = String(<<"\n", "\\">>)

(***************************************************************************)
(* C8: parse_number scans the whole run of digits and '.' that starts at   *)
(* the cursor, and a run with more than one '.' makes the parse fail: no   *)
(* Number is returned, at top level and inside a container.                *)
(***************************************************************************)
C8_MalformedNumbersRejected ==
    (case.family = "number" /\ Done)
    => LET before == IF case.nested THEN 1 ELSE 0 IN
       /\ Dots(case.run) > 1 =>
              /\ status = "panicked"
              /\ msg = UnwrapPanic
              /\ pos = before + Len(case.run)
       /\ (Dots(case.run) <= 1 /\ ~case.nested) =>
              /\ status = "returned"
              /\ ret.tag = "Number"
              /\ pos = Len(case.run)

C8_Witness ==
    /\ case.family = "number"
    /\ case.run = <<"1", ".", ".", "5">>
    /\ case.nested
    /\ status = "panicked"
    /\ msg = UnwrapPanic

(***************************************************************************)
(* C9: in parse_list_or_map a comma before the first entry fails with      *)
(* ", not allowed before first item"; on a later iteration an entry that   *)
(* no comma precedes fails with "expected , after list item"; after a      *)
(* second comma in a row the parse returns no Value.                       *)
(***************************************************************************)
C9_SeparatorDiscipline ==
    /\ (Running("parse_list_or_map") /\ Top(Self).at = "check") =>
           LET f == Top(Self)
               n == Step(Self)
           IN
           /\ (f.first /\ f.has_comma) =>
                  /\ n.status = "panicked"
                  /\ n.msg = ", not allowed before first item"
           /\ (/\ ~f.first
               /\ ~f.has_comma
               /\ ~at(Self, <<"}">>)
               /\ ~at_panics(Self, <<"}">>)) =>
                  /\ n.status = "panicked"
                  /\ n.msg = "expected , after list item"
           /\ (f.has_comma /\ current(Self) = ",") =>
                  Run(Self).status = "panicked"
    /\ (case.family = "container" /\ Done) =>
           /\ case.style \in {"leading", "leading_spaced"} =>
                  /\ status = "panicked"
                  /\ msg = ", not allowed before first item"
           /\ (\/ case.style = "double_trailing"
               \/ /\ case.style \in {"double", "double_spaced"}
                  /\ Len(case.entries) >= 2) =>
                  status = "panicked"

C9_Witness ==
    /\ case.family = "container"
    /\ case.style = "missing"
    /\ case.entries = <<"M1", "M1">>
    /\ status = "panicked"
    /\ msg = "expected , after list item"

(***************************************************************************)
(* C10: every parse ends, returned or panicked; the cursor never moves     *)
(* back; an iteration of a loop of eat_ws, parse_string, parse_number,     *)
(* remove_reference or parse_list_or_map moves the cursor forward; and a   *)
(* parse_value called within a parse_value starts further in the text.     *)
(***************************************************************************)
\* This step is an iteration of the loop of a method that only loops.
Iterates(fn) ==
    /\ Running(fn)
    /\ status' = "running"
    /\ Len(stack') = Len(stack)

\* This step ends an iteration of the loop of parse_list_or_map.
EntryDone ==
    /\ Running("parse_list_or_map")
    /\ Top(Self).at \in {"value", "item"}

ParseValueFrames == {i \in 1..Len(stack) : stack[i].fn = "parse_value"}

C10_Termination ==
    /\ <>Done
    /\ [][pos' >= pos]_vars
    /\ [][(\E fn \in {"eat_ws", "parse_string", "parse_number",
                      "remove_reference"} : Iterates(fn)) => pos' > pos]_vars
    /\ [][EntryDone => pos > Top(Self).top]_vars
    /\ [](\A i, j \in ParseValueFrames :
              i < j => stack[i].entry < stack[j].entry)

C10_Witness ==
    /\ case.family = "container"
    /\ case.nested
    /\ case.entries = <<"M1", "LC">>
    /\ case.style = "spaced"
    /\ Len(stack) = 5
    /\ Top(Self).fn = "eat_ws"

====
